---- MODULE Spec2Model ----
(***************************************************************************)
(* Model of the two lecture notebooks:                                     *)
(*   2-week2/2-problem-data-eda.ipynb  load_housing_data, the California   *)
(*                                     image cell, the attribute           *)
(*                                     combinations cell                   *)
(*   3-week3/4-encoding.ipynb          the OneHotEncoder example cell, the *)
(*                                     multi-column one-hot loop           *)
(* Every library call that touches the filesystem or the network is one    *)
(* step of the kernel that runs the cell; a step that raises ends the cell.*)
(***************************************************************************)
EXTENDS Integers, Sequences, FiniteSets, TLC

\* ---------------------------------------------------------------- bounds
\* calls of load_housing_data / runs of the image cell over one behaviour
MaxCalls == 3
\* rows of the one-hot example column
MaxSamples == 4
\* runs of the attribute combinations cell by one kernel
MaxDerive == 2
\* rows, and the largest value of a base column, of the tables the attribute
\* combinations cell is checked on
MaxRows == 1
MaxVal == 2

\* ---------------------------------------------------------------- kernels
\* the Python processes that may run the notebook against one filesystem
Procs == {"k1", "k2"}

\* ---------------------------------------------------------------- paths
\* Path("data/housing.tgz")
tarball_path == <<"data", "housing.tgz">>
\* Path("data/housing/housing.csv")
csv_path == <<"data", "housing", "housing.csv">>
\* IMAGES_PATH / filename
image_path == <<"assets", "california.png">>
\* the directory a path lives in
Parent(path) == SubSeq(path, 1, Len(path) - 1)
\* extractall(path="data"): where a member of the archive lands
ExtractTarget(member) == <<"data">> \o member

\* ---------------------------------------------------------------- data
\* one district of the table: the base columns the notebook computes with
Row(tr, hh, tb, pop) ==
    [total_rooms |-> tr, households |-> hh, total_bedrooms |-> tb, population |-> pop]
\* the tables the remote archive may hold
SampleTables ==
    { <<Row(6, 2, 3, 4), Row(8, 4, 2, 0)>>,
      <<Row(4, 0, 1, 2), Row(0, 0, 0, 3)>> }
\* the member names under which the remote archive may hold its table
Members == { <<"housing", "housing.csv">>, <<"housing.csv">> }
Archives == [member : Members, table : SampleTables]
\* the files extraction can create
ExtractedPaths == { ExtractTarget(m) : m \in Members }
\* a file on disk: whether it exists and the rows it holds
NoFile == [exists |-> FALSE, rows |-> <<>>]
FileOf(rows) == [exists |-> TRUE, rows |-> rows]
\* the proper prefixes of a table: what an interrupted write leaves (the
\* empty prefix is a file with nothing in it yet)
Prefixes(t) == { SubSeq(t, 1, n) : n \in 0..(Len(t) - 1) }

\* the in-memory table: not yet bound, or the parsed rows plus derived columns
NoTable == [loaded |-> FALSE, rows |-> <<>>, derived |-> <<>>]

VARIABLES
    remote,       \* the archive the URL serves
    dirs,         \* the directories that exist
    tarball,      \* data/housing.tgz: "absent", "partial" or "full"
    files,        \* the files under data/ that extraction creates
    image,        \* assets/california.png: "absent", "partial" or "full"
    pc,           \* each kernel's position
    cell,         \* the cell each kernel is running or ran last
    log,          \* the library calls of each kernel's current cell, in order
    cacheAtCall,  \* what tarball_path.is_file() was when the call began
    afterSuccess, \* whether an earlier call had returned when the call began
    readPath,     \* the path the call handed to read_csv
    housing,      \* each kernel's `housing` variable
    succeeded,    \* some call of load_housing_data has returned
    nCalls,       \* cells run so far
    nFetch,       \* urlretrieve calls on the archive URL so far
    nNoFile,      \* of those, the ones that raised leaving no file
    nCreated,     \* times data/housing.tgz came into existence
    nDerive,      \* runs of the attribute combinations cell, per kernel
    extractFailed,  \* some extractall has raised
    overlap,      \* some call of load_housing_data began while another was running
    df_Color,       \* 4-encoding: the column df['Color']
    categories_,    \* 4-encoding: encoder.categories_[0] once fitted
    colors_one_hot, \* 4-encoding: the matrix fit_transform returned
    df_one_hot,     \* 4-encoding: the column names of df_one_hot
    df_Sweetness,   \* 4-encoding: the column df['Sweetness'], by integer part
    df_Color_auto_encoded,  \* 4-encoding: the column df['Color_auto_encoded']
    df_transformed  \* 4-encoding: the frame the multi-column loop builds

fsvars == <<dirs, tarball, files, image>>
ghost == <<succeeded, nCalls, nFetch, nNoFile, nCreated>>
hist == <<nDerive, extractFailed, overlap>>
vars == <<remote, dirs, tarball, files, image, pc, cell, log, cacheAtCall, afterSuccess,
          readPath, housing, succeeded, nCalls, nFetch, nNoFile, nCreated,
          nDerive, extractFailed, overlap,
          df_Color, categories_, colors_one_hot, df_one_hot,
          df_Sweetness, df_Color_auto_encoded, df_transformed>>
edavars == <<remote, dirs, tarball, files, image, pc, cell, log, cacheAtCall,
             afterSuccess, readPath, housing, succeeded, nCalls, nFetch, nNoFile,
             nCreated, nDerive, extractFailed, overlap>>
encvars == <<df_Color, categories_, colors_one_hot, df_one_hot,
             df_Sweetness, df_Color_auto_encoded, df_transformed>>

\* ---------------------------------------------------------------- helpers
Entry(op, ok) == [op |-> op, ok |-> ok]
Ops(l) == { l[i].op : i \in 1..Len(l) }
Count(l, op) == Cardinality({ i \in 1..Len(l) : l[i].op = op })
\* positions between cells
Resting == {"idle", "done", "failed"}
\* positions inside load_housing_data
InLoad == {"mkdir", "urlretrieve", "extractall", "read_csv"}
\* positions of the cache-miss branch
MissSteps == {"mkdir", "urlretrieve", "extractall"}
\* the kernel is in, or has ended, a call of load_housing_data
LoadCall(p) == cell[p] = "load"
\* the notebook is run by one kernel at a time, and running it leaves the
\* encoding notebook's variables alone
Sequential(p) ==
    /\ \A q \in Procs \ {p} : pc[q] \in Resting
    /\ UNCHANGED encvars

\* variant: a cache test that also validates the file (only a whole file counts)
IsFile_Whole(f) == f = "full"

\* Path.is_file()
IsFile(f) == f # "absent"

\* ---------------------------------------------------------------- Init
\* the encoding notebook before its example cell has run
EncoderNew ==
    /\ categories_ = <<>>
    /\ colors_one_hot = <<>>
    /\ df_one_hot = <<>>
    /\ df_Color_auto_encoded = <<>>
    /\ df_transformed = <<>>

Init ==
    /\ df_Color = <<>>
    /\ df_Sweetness = <<>>
    /\ EncoderNew
    /\ remote \in Archives
    /\ dirs \in SUBSET { Parent(tarball_path), Parent(image_path) }
    /\ tarball = "absent"
    /\ files = [x \in ExtractedPaths |-> NoFile]
    /\ image = "absent"
    /\ pc = [p \in Procs |-> "idle"]
    /\ cell = [p \in Procs |-> "none"]
    /\ log = [p \in Procs |-> <<>>]
    /\ cacheAtCall = [p \in Procs |-> FALSE]
    /\ afterSuccess = [p \in Procs |-> FALSE]
    /\ readPath = [p \in Procs |-> <<>>]
    /\ housing = [p \in Procs |-> NoTable]
    /\ succeeded = FALSE
    /\ nCalls = 0
    /\ nFetch = 0
    /\ nNoFile = 0
    /\ nCreated = 0
    /\ nDerive = [p \in Procs |-> 0]
    /\ extractFailed = FALSE
    /\ overlap = FALSE

\* ---------------------------------------------------------------- load_housing_data
\* variant: the existence test dropped, every call takes the cache-miss branch
Call_NoCheck(p) ==
    /\ pc[p] \in Resting
    /\ nCalls < MaxCalls
    /\ nCalls' = nCalls + 1
    /\ pc' = [pc EXCEPT ![p] = "mkdir"]
    /\ cell' = [cell EXCEPT ![p] = "load"]
    /\ log' = [log EXCEPT ![p] = <<Entry("is_file", TRUE)>>]
    /\ cacheAtCall' = [cacheAtCall EXCEPT ![p] = (tarball \in {"partial", "full"})]
    /\ afterSuccess' = [afterSuccess EXCEPT ![p] = succeeded]
    /\ readPath' = [readPath EXCEPT ![p] = <<>>]
    /\ overlap' = (overlap \/ \E q \in Procs \ {p} : pc[q] \in InLoad)
    /\ UNCHANGED <<nDerive, extractFailed, remote, fsvars, housing, succeeded, nFetch,
                   nNoFile, nCreated>>

\* variant: the test is made on the extracted table file instead
\*     if not Path("data/housing/housing.csv").is_file():
Call_CheckTable(p) ==
    /\ pc[p] \in Resting
    /\ nCalls < MaxCalls
    /\ nCalls' = nCalls + 1
    /\ pc' = [pc EXCEPT ![p] = IF files[csv_path].exists THEN "read_csv" ELSE "mkdir"]
    /\ cell' = [cell EXCEPT ![p] = "load"]
    /\ log' = [log EXCEPT ![p] = <<Entry("is_file", TRUE)>>]
    /\ cacheAtCall' = [cacheAtCall EXCEPT ![p] = (tarball \in {"partial", "full"})]
    /\ afterSuccess' = [afterSuccess EXCEPT ![p] = succeeded]
    /\ readPath' = [readPath EXCEPT ![p] = <<>>]
    /\ overlap' = (overlap \/ \E q \in Procs \ {p} : pc[q] \in InLoad)
    /\ UNCHANGED <<nDerive, extractFailed, remote, fsvars, housing, succeeded, nFetch,
                   nNoFile, nCreated>>

\* housing = load_housing_data(): the call begins and tests the cache file
\*     if not tarball_path.is_file():
Call(p) ==
    /\ pc[p] \in Resting
    /\ nCalls < MaxCalls
    /\ nCalls' = nCalls + 1
    /\ pc' = [pc EXCEPT ![p] = IF IsFile(tarball) THEN "read_csv" ELSE "mkdir"]
    /\ cell' = [cell EXCEPT ![p] = "load"]
    /\ log' = [log EXCEPT ![p] = <<Entry("is_file", TRUE)>>]
    /\ cacheAtCall' = [cacheAtCall EXCEPT ![p] = (tarball \in {"partial", "full"})]
    /\ afterSuccess' = [afterSuccess EXCEPT ![p] = succeeded]
    /\ readPath' = [readPath EXCEPT ![p] = <<>>]
    /\ overlap' = (overlap \/ \E q \in Procs \ {p} : pc[q] \in InLoad)
    /\ UNCHANGED <<nDerive, extractFailed, remote, fsvars, housing, succeeded, nFetch,
                   nNoFile, nCreated>>

\* variant: the download block wrapped in try/except pass, so an error of the
\* cache-miss branch is swallowed and the call goes on to the parse
Raise_Swallow(p, op) ==
    /\ pc' = [pc EXCEPT ![p] = IF cell[p] = "load" /\ op \in MissSteps
                               THEN "read_csv" ELSE "failed"]
    /\ log' = [log EXCEPT ![p] = Append(@, Entry(op, FALSE))]

\* where a step that raised leaves the kernel: the exception reaches the cell
Raise(p, op) ==
    /\ pc' = [pc EXCEPT ![p] = "failed"]
    /\ log' = [log EXCEPT ![p] = Append(@, Entry(op, FALSE))]

\* where a step that returned leaves the kernel
Proceed(p, op, next) ==
    /\ pc' = [pc EXCEPT ![p] = next]
    /\ log' = [log EXCEPT ![p] = Append(@, Entry(op, TRUE))]

\* variant: the directory creation wrapped in try/except pass, a denial is
\* ignored and the call goes on to the fetch
Mkdir_Swallow(p) ==
    /\ pc[p] = "mkdir"
    /\ \/ /\ dirs' = dirs \cup {Parent(tarball_path)}
          /\ Proceed(p, "mkdir", "urlretrieve")
       \/ /\ Parent(tarball_path) \notin dirs
          /\ dirs' = dirs
          /\ pc' = [pc EXCEPT ![p] = "urlretrieve"]
          /\ log' = [log EXCEPT ![p] = Append(@, Entry("mkdir", FALSE))]
    /\ UNCHANGED <<hist, cell, remote, tarball, files, image, cacheAtCall, afterSuccess,
                   readPath, housing, ghost>>

\* Path("data").mkdir(parents=True, exist_ok=True)
Mkdir(p) ==
    /\ pc[p] = "mkdir"
    /\ \/ /\ dirs' = dirs \cup {Parent(tarball_path)}
          /\ Proceed(p, "mkdir", "urlretrieve")
       \/ /\ Parent(tarball_path) \notin dirs      \* creation denied
          /\ dirs' = dirs
          /\ Raise(p, "mkdir")
    /\ UNCHANGED <<hist, cell, remote, tarball, files, image, cacheAtCall, afterSuccess,
                   readPath, housing, ghost>>

\* urllib.request.urlretrieve(url, filename): the outcomes for the file at
\* `path`, given the directories that exist. The request is sent first, then
\* the file is opened for writing, then the body is copied block by block.
\*   "full"       the whole body was written and the call returned
\*   "truncated"  the body ended early unnoticed (no Content-Length): returned
\*   "cut"        the copy broke off or came up short: raised, the file stays
\*   "none"       the request failed or the file could not be opened: raised
FetchOutcomes(path, ds) ==
    IF Parent(path) \in ds THEN {"full", "truncated", "cut", "none"} ELSE {"none"}
Returned(out) == out \in {"full", "truncated"}
Written(out, old) ==
    CASE out = "full" -> "full"
      [] out \in {"truncated", "cut"} -> "partial"
      [] OTHER -> old

\* variant: a fetch that raised is tried again
Urlretrieve_Retry(p) ==
    /\ pc[p] = "urlretrieve"
    /\ \E out \in FetchOutcomes(tarball_path, dirs) :
          /\ tarball' = Written(out, tarball)
          /\ nFetch' = nFetch + 1
          /\ nNoFile' = nNoFile + (IF tarball' = "absent" THEN 1 ELSE 0)
          /\ nCreated' = nCreated + (IF tarball = "absent" /\ tarball' # "absent" THEN 1 ELSE 0)
          /\ IF Returned(out) THEN Proceed(p, "urlretrieve", "extractall")
                              ELSE /\ pc' = pc
                                   /\ log' = [log EXCEPT ![p] =
                                                 Append(@, Entry("urlretrieve", FALSE))]
    /\ UNCHANGED <<hist, cell, remote, dirs, files, image, cacheAtCall, afterSuccess,
                   readPath, housing, succeeded, nCalls>>

\* urllib.request.urlretrieve(url, tarball_path)
Urlretrieve(p) ==
    /\ pc[p] = "urlretrieve"
    /\ \E out \in FetchOutcomes(tarball_path, dirs) :
          /\ tarball' = Written(out, tarball)
          /\ nFetch' = nFetch + 1
          /\ nNoFile' = nNoFile + (IF tarball' = "absent" THEN 1 ELSE 0)
          /\ nCreated' = nCreated + (IF tarball = "absent" /\ tarball' # "absent" THEN 1 ELSE 0)
          /\ IF Returned(out) THEN Proceed(p, "urlretrieve", "extractall")
                              ELSE Raise(p, "urlretrieve")
    /\ UNCHANGED <<hist, cell, remote, dirs, files, image, cacheAtCall, afterSuccess,
                   readPath, housing, succeeded, nCalls>>

\* variant: a failed extraction removes the archive it could not unpack
Extractall_Cleanup(p) ==
    /\ pc[p] = "extractall"
    /\ LET target == ExtractTarget(remote.member) IN
       \/ /\ tarball = "full"
          /\ files' = [files EXCEPT ![target] = FileOf(remote.table)]
          /\ tarball' = tarball
          /\ extractFailed' = extractFailed
          /\ Proceed(p, "extractall", "read_csv")
       \/ /\ files' = files
          /\ tarball' = "absent"
          /\ extractFailed' = TRUE
          /\ Raise(p, "extractall")
    /\ UNCHANGED <<nDerive, overlap, cell, remote, dirs, image, cacheAtCall, afterSuccess,
                   readPath, housing, ghost>>

\* with tarfile.open(tarball_path) as housing_tarball:
\*     housing_tarball.extractall(path="data")
\* A whole archive is unpacked, unless the target cannot be written; a
\* truncated archive raises. A failed extraction leaves the member untouched
\* or partly written.
Extractall(p) ==
    /\ pc[p] = "extractall"
    /\ LET target == ExtractTarget(remote.member) IN
       \/ /\ tarball = "full"
          /\ files' = [files EXCEPT ![target] = FileOf(remote.table)]
          /\ extractFailed' = extractFailed
          /\ Proceed(p, "extractall", "read_csv")
       \/ /\ \/ files' = files
             \/ \E pre \in Prefixes(remote.table) :
                   files' = [files EXCEPT ![target] = FileOf(pre)]
          /\ extractFailed' = TRUE
          /\ Raise(p, "extractall")
    /\ UNCHANGED <<nDerive, overlap, cell, remote, dirs, tarball, image, cacheAtCall, afterSuccess,
                   readPath, housing, ghost>>

\* variant: on a cache miss the path of the member just extracted is read
TablePath_FromArchive(p) ==
    IF cacheAtCall[p] THEN csv_path ELSE ExtractTarget(remote.member)

\* the path load_housing_data reads the table from
TablePath(p) == csv_path

\* variant: a parse that fails on a cache hit falls back to the download
ReadCsv_Recover(p) ==
    /\ pc[p] = "read_csv"
    /\ readPath' = [readPath EXCEPT ![p] = csv_path]
    /\ IF files[csv_path].exists /\ files[csv_path].rows # <<>>
       THEN /\ housing' = [housing EXCEPT ![p] =
                              [loaded |-> TRUE, rows |-> files[csv_path].rows,
                               derived |-> <<>>]]
            /\ succeeded' = TRUE
            /\ Proceed(p, "read_csv", "done")
       ELSE /\ UNCHANGED <<housing, succeeded>>
            /\ IF cacheAtCall[p] THEN Proceed(p, "read_csv", "mkdir")
                                 ELSE Raise(p, "read_csv")
    /\ UNCHANGED <<hist, cell, remote, fsvars, cacheAtCall, afterSuccess,
                   nCalls, nFetch, nNoFile, nCreated>>

\* variant: the extracted file is removed once it has been parsed
ReadCsv_Cleanup(p) ==
    /\ pc[p] = "read_csv"
    /\ readPath' = [readPath EXCEPT ![p] = csv_path]
    /\ IF files[csv_path].exists /\ files[csv_path].rows # <<>>
       THEN /\ housing' = [housing EXCEPT ![p] =
                              [loaded |-> TRUE, rows |-> files[csv_path].rows,
                               derived |-> <<>>]]
            /\ succeeded' = TRUE
            /\ files' = [files EXCEPT ![csv_path] = NoFile]
            /\ Proceed(p, "read_csv", "done")
       ELSE /\ UNCHANGED <<housing, succeeded, files>>
            /\ Raise(p, "read_csv")
    /\ UNCHANGED <<hist, cell, remote, dirs, tarball, image, cacheAtCall, afterSuccess,
                   nCalls, nFetch, nNoFile, nCreated>>

\* return pd.read_csv(Path("data/housing/housing.csv")), and the assignment
\* housing = ... of the calling cell. A missing or empty file raises.
ReadCsv(p) ==
    /\ pc[p] = "read_csv"
    /\ readPath' = [readPath EXCEPT ![p] = TablePath(p)]
    /\ LET path == TablePath(p)
           f == IF path \in ExtractedPaths THEN files[path] ELSE NoFile
       IN IF f.exists /\ f.rows # <<>>
          THEN /\ housing' = [housing EXCEPT ![p] =
                                 [loaded |-> TRUE, rows |-> f.rows, derived |-> <<>>]]
               /\ succeeded' = TRUE
               /\ Proceed(p, "read_csv", "done")
          ELSE /\ UNCHANGED <<housing, succeeded>>
               /\ Raise(p, "read_csv")
    /\ UNCHANGED <<hist, cell, remote, fsvars, cacheAtCall, afterSuccess,
                   nCalls, nFetch, nNoFile, nCreated>>

\* ---------------------------------------------------------------- the image cell
\* if not (IMAGES_PATH / filename).is_file():
ImageCell(p) ==
    /\ pc[p] \in Resting
    /\ nCalls < MaxCalls
    /\ nCalls' = nCalls + 1
    /\ pc' = [pc EXCEPT ![p] = IF IsFile(image) THEN "img_plot" ELSE "img_urlretrieve"]
    /\ cell' = [cell EXCEPT ![p] = "image"]
    /\ log' = [log EXCEPT ![p] = <<Entry("is_file", TRUE)>>]
    /\ UNCHANGED <<hist, remote, fsvars, cacheAtCall, afterSuccess, readPath, housing,
                   succeeded, nFetch, nNoFile, nCreated>>

\* urllib.request.urlretrieve(url, IMAGES_PATH / filename): the cell creates
\* no directory before it
ImageUrlretrieve(p) ==
    /\ pc[p] = "img_urlretrieve"
    /\ \E out \in FetchOutcomes(image_path, dirs) :
          /\ image' = Written(out, image)
          /\ IF Returned(out) THEN Proceed(p, "urlretrieve", "img_plot")
                              ELSE Raise(p, "urlretrieve")
    /\ UNCHANGED <<hist, cell, remote, dirs, tarball, files, cacheAtCall, afterSuccess,
                   readPath, housing, ghost>>

\* housing.rename(...).plot(...); plt.imread(IMAGES_PATH / filename); ...
\* raises when `housing` is unbound or the image is not a whole PNG
ImagePlot(p) ==
    /\ pc[p] = "img_plot"
    /\ IF housing[p].loaded /\ image = "full"
       THEN Proceed(p, "plot", "done") ELSE Raise(p, "plot")
    /\ UNCHANGED <<hist, cell, remote, fsvars, cacheAtCall, afterSuccess, readPath, housing, ghost>>

\* ---------------------------------------------------------------- attribute combinations
RECURSIVE GCD(_, _)
GCD(a, b) == IF b = 0 THEN a ELSE GCD(b, a % b)
\* n / d, row-wise division of two columns of non-negative numbers, as the
\* quotient in lowest terms; [1, 0] is inf and [0, 0] is NaN
Ratio(n, d) ==
    LET g == GCD(n, d) IN
    IF g = 0 THEN [num |-> 0, den |-> 0] ELSE [num |-> n \div g, den |-> d \div g]

\* housing["rooms_per_house"] = housing["total_rooms"] / housing["households"]
\* housing["bedrooms_ratio"] = housing["total_bedrooms"] / housing["total_rooms"]
\* housing["people_per_house"] = housing["population"] / housing["households"]
Derive(rows) ==
    [i \in 1..Len(rows) |->
        [rooms_per_house  |-> Ratio(rows[i].total_rooms, rows[i].households),
         bedrooms_ratio   |-> Ratio(rows[i].total_bedrooms, rows[i].total_rooms),
         people_per_house |-> Ratio(rows[i].population, rows[i].households)]]

\* variant: the first statement divides the ratio column by households again
\* when the column is already there
\*     housing["rooms_per_house"] = housing["rooms_per_house"] / housing["households"]
AttributeCombinations_Compound(p) ==
    /\ pc[p] \in Resting
    /\ housing[p].loaded
    /\ nDerive[p] < MaxDerive
    /\ nDerive' = [nDerive EXCEPT ![p] = @ + 1]
    /\ LET rows == housing[p].rows
           old == housing[p].derived
           new == Derive(rows)
       IN housing' = [housing EXCEPT ![p].derived =
             IF old = <<>> THEN new
             ELSE [i \in 1..Len(rows) |->
                     [new[i] EXCEPT !.rooms_per_house =
                         Ratio(old[i].rooms_per_house.num,
                               old[i].rooms_per_house.den * rows[i].households)]]]
    /\ UNCHANGED <<extractFailed, overlap, cell, remote, fsvars, pc, log, cacheAtCall,
                   afterSuccess, readPath, ghost>>

\* one run of the cell on the kernel's `housing`
AttributeCombinations(p) ==
    /\ pc[p] \in Resting
    /\ housing[p].loaded
    /\ nDerive[p] < MaxDerive
    /\ nDerive' = [nDerive EXCEPT ![p] = @ + 1]
    /\ housing' = [housing EXCEPT ![p].derived = Derive(housing[p].rows)]
    /\ UNCHANGED <<extractFailed, overlap, cell, remote, fsvars, pc, log, cacheAtCall,
                   afterSuccess, readPath, ghost>>

\* ---------------------------------------------------------------- the notebook
Next ==
    \/ \E p \in Procs : Sequential(p) /\ Call(p)
    \/ \E p \in Procs : Sequential(p) /\ Mkdir(p)
    \/ \E p \in Procs : Sequential(p) /\ Urlretrieve(p)
    \/ \E p \in Procs : Sequential(p) /\ Extractall(p)
    \/ \E p \in Procs : Sequential(p) /\ ReadCsv(p)
    \/ \E p \in Procs : Sequential(p) /\ ImageCell(p)
    \/ \E p \in Procs : Sequential(p) /\ ImageUrlretrieve(p)
    \/ \E p \in Procs : Sequential(p) /\ ImagePlot(p)
    \/ \E p \in Procs : Sequential(p) /\ AttributeCombinations(p)

Spec == Init /\ [][Next]_vars

\* ---------------------------------------------------------------- concurrent kernels
\* load_housing_data called by several processes against one working
\* directory with nothing to order them: the steps are the library calls, in
\* any interleaving
Concurrent(p) == UNCHANGED encvars

NextRace ==
    \/ \E p \in Procs : Concurrent(p) /\ Call(p)
    \/ \E p \in Procs : Concurrent(p) /\ Mkdir(p)
    \/ \E p \in Procs : Concurrent(p) /\ Urlretrieve(p)
    \/ \E p \in Procs : Concurrent(p) /\ Extractall(p)
    \/ \E p \in Procs : Concurrent(p) /\ ReadCsv(p)

SpecRace == Init /\ [][NextRace]_vars

\* ---------------------------------------------------------------- the cell on any table
\* the tables `housing` may hold: up to MaxRows districts, every base column
\* any count up to MaxVal
BaseRows == { Row(tr, hh, tb, pop) : tr, hh, tb, pop \in 0..MaxVal }
Tables == UNION { [1..n -> BaseRows] : n \in 1..MaxRows }

\* a kernel whose call of load_housing_data has returned a table, taken from
\* the extracted file on a cache hit
InitRatio ==
    /\ df_Color = <<>>
    /\ df_Sweetness = <<>>
    /\ EncoderNew
    /\ remote = CHOOSE a \in Archives : a.member = <<"housing", "housing.csv">>
    /\ dirs = { Parent(tarball_path) }
    /\ tarball = "full"
    /\ image = "absent"
    /\ \E t \in Tables :
          /\ files = [x \in ExtractedPaths |-> IF x = csv_path THEN FileOf(t) ELSE NoFile]
          /\ housing = [p \in Procs |->
                          IF p = "k1" THEN [loaded |-> TRUE, rows |-> t, derived |-> <<>>]
                          ELSE NoTable]
    /\ pc = [p \in Procs |-> IF p = "k1" THEN "done" ELSE "idle"]
    /\ cell = [p \in Procs |-> IF p = "k1" THEN "load" ELSE "none"]
    /\ log = [p \in Procs |->
                IF p = "k1" THEN <<Entry("is_file", TRUE), Entry("read_csv", TRUE)>>
                ELSE <<>>]
    /\ cacheAtCall = [p \in Procs |-> p = "k1"]
    /\ afterSuccess = [p \in Procs |-> FALSE]
    /\ readPath = [p \in Procs |-> IF p = "k1" THEN csv_path ELSE <<>>]
    /\ succeeded = TRUE
    /\ nCalls = 1
    /\ nFetch = 0
    /\ nNoFile = 0
    /\ nCreated = 0
    /\ nDerive = [p \in Procs |-> 0]
    /\ extractFailed = FALSE
    /\ overlap = FALSE

NextRatio == \E p \in Procs : Sequential(p) /\ AttributeCombinations(p)

SpecRatio == InitRatio /\ [][NextRatio]_vars

\* ================================================================ 4-encoding
\* the colour labels of the notebook, with their code points: np.unique
\* sorts strings by code point
CodePoints ==
    [Blue |-> <<66, 108, 117, 101>>, Green |-> <<71, 114, 101, 101, 110>>,
     Pink |-> <<80, 105, 110, 107>>, Red |-> <<82, 101, 100>>,
     blue |-> <<98, 108, 117, 101>>, green |-> <<103, 114, 101, 101, 110>>,
     red |-> <<114, 101, 100>>]
\* labels of the example cell: np.random.choice(['Blue', ...]), [..., 'Red']
Colors == {"Blue", "Green", "Pink", "Red"}
\* labels of the encoder_sparse cell: X = [['red'], ['blue'], ['green']]
LowerColors == {"red", "blue", "green"}

\* a < b for two sequences of code points, as Python compares str
RECURSIVE LexLess(_, _)
LexLess(a, b) ==
    IF b = <<>> THEN FALSE
    ELSE IF a = <<>> THEN TRUE
    ELSE IF Head(a) # Head(b) THEN Head(a) < Head(b)
    ELSE LexLess(Tail(a), Tail(b))
StrLess(x, y) == LexLess(CodePoints[x], CodePoints[y])

\* np.unique(column): the distinct values in ascending order
RECURSIVE SortedSeq(_)
SortedSeq(S) ==
    IF S = {} THEN <<>>
    ELSE LET m == CHOOSE x \in S : \A y \in S \ {x} : StrLess(x, y)
         IN <<m>> \o SortedSeq(S \ {m})
\* variant: the distinct values in order of first appearance, as pd.unique
RECURSIVE FirstAppearance(_, _)
FirstAppearance(column, seen) ==
    IF column = <<>> THEN <<>>
    ELSE IF Head(column) \in seen THEN FirstAppearance(Tail(column), seen)
    ELSE <<Head(column)>> \o FirstAppearance(Tail(column), seen \cup {Head(column)})
Unique_FirstAppearance(column) == FirstAppearance(column, {})

Unique(column) == SortedSeq({ column[i] : i \in 1..Len(column) })

\* variant: <= in place of =, a 1 in every column up to the value's category
OneHotRow_Ordinal(value, cats) ==
    [j \in 1..Len(cats) |-> IF cats[j] = value \/ StrLess(cats[j], value) THEN 1 ELSE 0]

\* one row of the dense matrix: a 1 in the column of the value's category
OneHotRow(value, cats) == [j \in 1..Len(cats) |-> IF cats[j] = value THEN 1 ELSE 0]
\* OneHotEncoder.transform
Transform(column, cats) == [i \in 1..Len(column) |-> OneHotRow(column[i], cats)]
\* encoder.get_feature_names_out(['Color']): (input feature, category) pairs
FeatureNamesOut(feature, cats) == [j \in 1..Len(cats) |-> <<feature, cats[j]>>]

\* the columns an encoder may be given: n_samples labels, each any colour of
\* one of the two cells
Columns == UNION { [1..n -> Colors] \cup [1..n -> LowerColors] : n \in 1..MaxSamples }

InitEnc ==
    /\ df_Color \in Columns
    /\ df_Sweetness \in [1..Len(df_Color) -> {1, 2}]
    /\ EncoderNew
    /\ remote = CHOOSE a \in Archives : TRUE
    /\ dirs = {}
    /\ tarball = "absent"
    /\ files = [x \in ExtractedPaths |-> NoFile]
    /\ image = "absent"
    /\ pc = [p \in Procs |-> "idle"]
    /\ cell = [p \in Procs |-> "none"]
    /\ log = [p \in Procs |-> <<>>]
    /\ cacheAtCall = [p \in Procs |-> FALSE]
    /\ afterSuccess = [p \in Procs |-> FALSE]
    /\ readPath = [p \in Procs |-> <<>>]
    /\ housing = [p \in Procs |-> NoTable]
    /\ succeeded = FALSE
    /\ nCalls = 0
    /\ nFetch = 0
    /\ nNoFile = 0
    /\ nCreated = 0
    /\ nDerive = [p \in Procs |-> 0]
    /\ extractFailed = FALSE
    /\ overlap = FALSE

\* le1.fit_transform(df['Color']): the position of each label among the
\* sorted labels, from 0
LabelEncode(column) ==
    LET classes == Unique(column) IN
    [i \in 1..Len(column) |->
        (CHOOSE j \in 1..Len(classes) : classes[j] = column[i]) - 1]

\* encoder = OneHotEncoder(sparse=False)
\* colors_one_hot = encoder.fit_transform(df[['Color']])
\* df_one_hot = pd.DataFrame(colors_one_hot, columns=encoder.get_feature_names_out(['Color']))
\* df['Color_auto_encoded'] = le1.fit_transform(df['Color'])
OneHotExample ==
    /\ categories_ = <<>>
    /\ categories_' = Unique(df_Color)
    /\ colors_one_hot' = Transform(df_Color, categories_')
    /\ df_one_hot' = FeatureNamesOut("Color", categories_')
    /\ df_Color_auto_encoded' = LabelEncode(df_Color)
    /\ UNCHANGED <<df_Color, df_Sweetness, df_transformed, edavars>>

\* ---------------------------------------------------------------- the multi-column loop
\* df.columns with their dtypes when the loop runs, in order. Sweetness stands
\* for the float columns and Color_auto_encoded for the integer columns of df.
DfColumns ==
    << [name |-> "Sweetness", dtype |-> "float64"],
       [name |-> "Color", dtype |-> "object"],
       [name |-> "Color_auto_encoded", dtype |-> "int64"] >>
\* if df[col].dtype == 'object' or df[col].dtype.name == 'category':
IsCategorical(dtype) == dtype = "object" \/ dtype = "category"

\* s without its i-th element; all of s when i is 0
RemoveAt(s, i) ==
    IF i = 0 THEN s
    ELSE [j \in 1..(Len(s) - 1) |-> IF j < i THEN s[j] ELSE s[j + 1]]

\* variant: drop='if_binary', a category is dropped only when there are two
DropIdx_IfBinary(cats) == IF Len(cats) = 2 THEN 1 ELSE 0

\* drop='first': the index of the category whose column is left out
DropIdx(cats) == 1

\* one_hot_df: the frame of encoder.fit_transform(df[[col]]) under the names
\* of encoder.get_feature_names_out([col]); a frame is its columns in order,
\* each a name and the values by row of the default RangeIndex
OneHotDf(col, column) ==
    LET cats == Unique(column)
        names == RemoveAt(FeatureNamesOut(col, cats), DropIdx(cats))
        one_hot_encoded ==
            [i \in 1..Len(column) |-> RemoveAt(OneHotRow(column[i], cats), DropIdx(cats))]
    IN [j \in 1..Len(names) |->
           [name |-> names[j],
            values |-> [i \in 1..Len(column) |-> one_hot_encoded[i][j]]]]

\* pd.concat([df_transformed, one_hot_df], axis=1): both frames carry the
\* RangeIndex of df, so the columns are put side by side
Concat(a, b) == a \o b

\* one pass of the loop body for the column col of df
LoopBody(df, col, transformed) ==
    IF IsCategorical(col.dtype)
    THEN Concat(transformed, OneHotDf(col.name, df[col.name]))
    ELSE Append(transformed, [name |-> <<col.name>>, values |-> df[col.name]])

\* for col in df.columns: ...
RECURSIVE Loop(_, _, _)
Loop(df, cols, transformed) ==
    IF cols = <<>> THEN transformed
    ELSE Loop(df, Tail(cols), LoopBody(df, Head(cols), transformed))

\* the loop cell, run on the df the example cell has built
MultiColumnLoop ==
    /\ categories_ # <<>>
    /\ df_transformed = <<>>
    /\ df_transformed' =
          Loop([Sweetness |-> df_Sweetness, Color |-> df_Color,
                Color_auto_encoded |-> df_Color_auto_encoded], DfColumns, <<>>)
    /\ categories_' = Unique(df_Color)
    /\ UNCHANGED <<df_Color, df_Sweetness, df_Color_auto_encoded, colors_one_hot,
                   df_one_hot, edavars>>

NextEnc ==
    \/ OneHotExample
    \/ MultiColumnLoop

SpecEnc == InitEnc /\ [][NextEnc]_vars

\* ================================================================ claims

\* C1: a call that begins while data/housing.tgz exists performs no directory
\* creation, no fetch and no extraction: after the existence test its only
\* step is the parse.
C1_CacheHitSkipsToParse ==
    \A p \in Procs :
        (LoadCall(p) /\ cacheAtCall[p]) =>
            /\ pc[p] \in {"read_csv", "done", "failed"}
            /\ Ops(log[p]) \subseteq {"is_file", "read_csv"}
            /\ log[p][1].op = "is_file"
C1_Witness ==
    \E p \in Procs :
        /\ LoadCall(p) /\ pc[p] = "done" /\ cacheAtCall[p]
        /\ log[p] = <<Entry("is_file", TRUE), Entry("read_csv", TRUE)>>

\* C2: a call that begins with no cache file and returns has performed exactly
\* one fetch and exactly one extraction, and the cache file exists.
C2_FreshCallFetchesOnce ==
    \A p \in Procs :
        (LoadCall(p) /\ pc[p] = "done" /\ ~cacheAtCall[p]) =>
            /\ Count(log[p], "urlretrieve") = 1
            /\ Count(log[p], "extractall") = 1
            /\ tarball \in {"partial", "full"}
C2_Witness ==
    \E p \in Procs : LoadCall(p) /\ pc[p] = "done" /\ ~cacheAtCall[p] /\ nFetch = 1

\* C3 as stated: after a call has returned no later call fetches, and no more
\* than one fetch is made over the whole sequence of calls.
C3_AtMostOneFetchEver ==
    /\ \A p \in Procs : (LoadCall(p) /\ afterSuccess[p]) => "urlretrieve" \notin Ops(log[p])
    /\ nFetch <= 1
\* C3 amended: after a call has returned no later call fetches, and at most
\* one fetch ever leaves a file at the cache path: every other fetch is an
\* attempt of an earlier call that raised without leaving a file.
C3_NoFetchAfterSuccess ==
    /\ \A p \in Procs : (LoadCall(p) /\ afterSuccess[p]) => "urlretrieve" \notin Ops(log[p])
    /\ nFetch - nNoFile <= 1
C3_Witness ==
    \E p \in Procs : LoadCall(p) /\ pc[p] = "done" /\ afterSuccess[p] /\ nFetch = 2 /\ nNoFile = 1

\* C4: every call that reaches the parse reads data/housing/housing.csv,
\* whether it took the cache-hit or the cache-miss branch and whatever member
\* the archive holds.
C4_SameTablePath ==
    \A p \in Procs :
        (LoadCall(p) /\ "read_csv" \in Ops(log[p])) =>
            readPath[p] = <<"data", "housing", "housing.csv">>
C4_Witness ==
    \E p, q \in Procs :
        /\ LoadCall(p) /\ cacheAtCall[p] /\ "read_csv" \in Ops(log[p])
        /\ LoadCall(q) /\ ~cacheAtCall[q] /\ "read_csv" \in Ops(log[q])
        /\ ExtractTarget(remote.member) # readPath[q]

\* the file a kernel about to fetch writes to
C5_FetchTarget(p) == IF pc[p] = "urlretrieve" THEN tarball_path ELSE image_path

\* C5 as stated: in every check-then-fetch download (the archive and the
\* image) a fetch starts only when the parent directory of its target
\* exists, and an extraction starts only after the fetch has returned.
C5_DirectoryBeforeEveryFetch ==
    [][\A p \in Procs :
          /\ (pc[p] \in {"urlretrieve", "img_urlretrieve"} /\ log'[p] # log[p]) =>
                 Parent(C5_FetchTarget(p)) \in dirs
          /\ (pc[p] = "extractall" /\ log'[p] # log[p]) =>
                 log[p][Len(log[p])] = Entry("urlretrieve", TRUE)]_vars
\* the same for the archive alone: mkdir, then urlretrieve, then extractall
C5_ArchiveOrder ==
    \A p \in Procs :
        (LoadCall(p) /\ ~cacheAtCall[p]) =>
            \E n \in 0..3 :
                /\ n <= Len(log[p]) - 1
                /\ \A i \in 1..n :
                       log[p][i + 1].op = <<"mkdir", "urlretrieve", "extractall">>[i]
                /\ Len(log[p]) > n + 1 => (n = 3 /\ log[p][5].op = "read_csv")
                /\ (n >= 2) => Parent(tarball_path) \in dirs

\* C6: within one call each of mkdir, urlretrieve, extractall and read_csv is
\* attempted at most once; only the last step of a call can have raised, and
\* the call has failed exactly when it did.
C6_NoRetryFirstErrorEnds ==
    \A p \in Procs :
        LoadCall(p) =>
            /\ \A op \in InLoad : Count(log[p], op) <= 1
            /\ \A i \in 1..(Len(log[p]) - 1) : log[p][i].ok
            /\ (pc[p] = "failed") <=> ~log[p][Len(log[p])].ok
C6_Witness ==
    \E p \in Procs :
        /\ LoadCall(p) /\ pc[p] = "failed"
        /\ log[p][Len(log[p])] = Entry("urlretrieve", FALSE)
        /\ tarball = "partial"

\* a partial cache file is on disk and no call is in the cache-miss branch
C7_Poisoned == tarball = "partial" /\ \A p \in Procs : pc[p] \notin MissSteps

\* C7: once a download has left a partial file at the cache path and the
\* call that made it is over, no step fetches, extracts or replaces the file,
\* and no kernel ever enters the cache-miss branch again.
C7_PartialCacheStaysValid ==
    [][C7_Poisoned =>
          /\ C7_Poisoned'
          /\ nFetch' = nFetch
          /\ files' = files]_vars
C7_Witness ==
    /\ tarball = "partial"
    /\ \E p \in Procs : LoadCall(p) /\ pc[p] = "done" /\ cacheAtCall[p]
    /\ nCalls = MaxCalls

\* C8: data/housing.tgz comes into existence at most once, and once it
\* exists no step removes it, rewrites it or fetches again.
C8_CacheCreatedOnce ==
    [][/\ nCreated' <= 1
       /\ (tarball # "absent") => (tarball' = tarball /\ nFetch' = nFetch)]_vars
C8_Witness ==
    /\ nCreated = 1 /\ nFetch = 2
    /\ \E p \in Procs : LoadCall(p) /\ cacheAtCall[p] /\ pc[p] \in {"done", "failed"}

\* C9: every call that returns has just parsed data/housing/housing.csv anew
\* (on a hit as on a miss), and no step outside the fetch and the extraction,
\* the parse and the derived columns included, changes the cache file or the
\* extracted files.
C9_ParsedFreshNothingWrittenBack ==
    [][\A p \in Procs :
          /\ (LoadCall(p) /\ pc'[p] = "done" /\ pc[p] # "done") =>
                 /\ pc[p] = "read_csv"
                 /\ housing'[p] = [loaded |-> TRUE, rows |-> files[csv_path].rows,
                                    derived |-> <<>>]
          /\ (\A q \in Procs : pc[q] \notin {"urlretrieve", "extractall"}) =>
                 (tarball' = tarball /\ files' = files)]_vars
C9_Witness ==
    \E p \in Procs :
        /\ LoadCall(p) /\ pc[p] = "done" /\ cacheAtCall[p]
        /\ housing[p].derived = Derive(files[csv_path].rows)
        /\ housing[p].rows = files[csv_path].rows

\* the columns in which a row of the matrix holds a 1
C10_Ones(row) == { j \in 1..Len(row) : row[j] = 1 }

\* C10: after the example cell has encoded the column, there is exactly one
\* binary column per distinct value of the column, every row holds exactly
\* one 1, and the category of a row's 1-column is the row's original value.
C10_OneHotRecoversColumn ==
    (categories_ # <<>>) =>
        /\ Len(df_one_hot) = Cardinality({ df_Color[i] : i \in 1..Len(df_Color) })
        /\ { df_one_hot[j][2] : j \in 1..Len(df_one_hot) }
               = { df_Color[i] : i \in 1..Len(df_Color) }
        /\ Len(colors_one_hot) = Len(df_Color)
        /\ \A i \in 1..Len(df_Color) :
              /\ Len(colors_one_hot[i]) = Len(df_one_hot)
              /\ \A j \in 1..Len(df_one_hot) : colors_one_hot[i][j] \in {0, 1}
              /\ Cardinality(C10_Ones(colors_one_hot[i])) = 1
              /\ \A j \in C10_Ones(colors_one_hot[i]) : df_one_hot[j][2] = df_Color[i]
C10_Witness ==
    /\ Len(df_Color) = 3
    /\ Len(categories_) = 2
    /\ df_Color[1] = df_Color[3]
    /\ colors_one_hot[1] = colors_one_hot[3]
    /\ colors_one_hot[1] # colors_one_hot[2]

C12_DeriveIdempotent ==
    [][\A p \in Procs :
          (nDerive'[p] = nDerive[p] + 1) =>
              /\ housing'[p].rows = housing[p].rows
              /\ housing'[p].derived = Derive(housing[p].rows)
              /\ (housing[p].derived # <<>>) => housing'[p] = housing[p]]_vars
C12_Witness ==
    \E p \in Procs :
        /\ nDerive[p] = 2
        /\ housing[p].rows = <<Row(1, 2, 2, 0)>>
        /\ housing[p].derived =
              <<[rooms_per_house |-> [num |-> 1, den |-> 2],
                 bedrooms_ratio |-> [num |-> 2, den |-> 1],
                 people_per_house |-> [num |-> 0, den |-> 1]]>>

\* the one-hot columns of the frame the loop built, and the encoding of row i
C13_OneHotColumns ==
    SelectSeq(df_transformed, LAMBDA c : Len(c.name) = 2)
C13_Encoding(i) == [j \in 1..Len(C13_OneHotColumns) |-> C13_OneHotColumns[j].values[i]]
C14_DeniedMkdirChangesNothing ==
    [][\A p \in Procs :
          /\ (log'[p] = Append(log[p], Entry("mkdir", FALSE))) =>
                /\ pc'[p] = "failed"
                /\ log'[p] = <<Entry("is_file", TRUE), Entry("mkdir", FALSE)>>
                /\ fsvars' = fsvars
                /\ nFetch' = nFetch
                /\ ~IsFile(tarball')
                /\ \A x \in ExtractedPaths : ~files'[x].exists
          /\ ( /\ LoadCall(p) /\ pc[p] = "failed"
               /\ log[p][Len(log[p])] = Entry("mkdir", FALSE)
               /\ tarball = "absent"
               /\ nCalls' = nCalls + 1 /\ cell'[p] = "load" /\ pc'[p] # pc[p] ) =>
                /\ pc'[p] = "mkdir"
                /\ ~cacheAtCall'[p]]_vars
C14_Witness ==
    \E p \in Procs :
        /\ LoadCall(p) /\ pc[p] = "failed"
        /\ log[p] = <<Entry("is_file", TRUE), Entry("mkdir", FALSE)>>
        /\ nCalls >= 2 /\ nFetch = 0
        /\ tarball = "absent"
        /\ Parent(tarball_path) \notin dirs

\* C15 as stated: once an extraction has failed, every later call (a call
\* that began with the cache file present) that has ended has failed at the
\* parse step, the table file being missing.
C15_LaterCallsFailAtParse ==
    extractFailed =>
        \A p \in Procs :
            (LoadCall(p) /\ cacheAtCall[p] /\ pc[p] \in {"done", "failed"}) =>
                /\ pc[p] = "failed"
                /\ log[p] = <<Entry("is_file", TRUE), Entry("read_csv", FALSE)>>
                /\ ~files[csv_path].exists

\* C15: once a fetch has succeeded and the extraction after it has failed,
\* the cache file stays; no kernel is in the cache-miss branch again, so no
\* fetch and no extraction is attempted again; every later call goes from
\* the existence test to the parse; it fails there when the table file is
\* missing or empty, and otherwise returns the truncated table the failed
\* extraction left behind; the whole table is never on disk.
C15_NeverRecovers ==
    extractFailed =>
        /\ IsFile(tarball)
        /\ files[csv_path] # FileOf(remote.table)
        /\ \A p \in Procs :
              /\ pc[p] \notin MissSteps
              /\ (LoadCall(p) /\ cacheAtCall[p]) =>
                    /\ Ops(log[p]) \subseteq {"is_file", "read_csv"}
                    /\ (pc[p] = "failed") =>
                          (~files[csv_path].exists \/ files[csv_path].rows = <<>>)
                    /\ (pc[p] = "done") =>
                          /\ housing[p].rows \in Prefixes(remote.table) \ {<<>>}
                          /\ housing[p].rows = files[csv_path].rows
C15_Witness ==
    /\ extractFailed
    /\ tarball = "full"
    /\ ~files[csv_path].exists
    /\ nCalls = MaxCalls
    /\ \A p \in Procs :
          /\ LoadCall(p) /\ pc[p] = "failed" /\ cacheAtCall[p]
          /\ log[p] = <<Entry("is_file", TRUE), Entry("read_csv", FALSE)>>

\* C16: the existence test and the fetch are separate steps: every kernel in
\* or past the cache-miss branch saw the file absent when its call began,
\* and nothing else stops it; calls that do not overlap leave at most one
\* fetch with a file at the cache path, overlapping calls can leave as many
\* as there are processes.
C16_OneFetchOnlyIfSequential ==
    /\ \A p \in Procs :
          (LoadCall(p) /\ (pc[p] \in MissSteps \/ Ops(log[p]) \cap MissSteps # {})) =>
              ~cacheAtCall[p]
    /\ ~overlap => nFetch - nNoFile <= 1
    /\ nFetch - nNoFile <= Cardinality(Procs)
C16_Witness ==
    /\ overlap
    /\ nFetch = 2 /\ nNoFile = 0
    /\ tarball = "full"
    /\ files[csv_path] = FileOf(remote.table)
    /\ \A p \in Procs :
          /\ LoadCall(p) /\ ~cacheAtCall[p]
          /\ log[p] = <<Entry("is_file", TRUE), Entry("mkdir", TRUE),
                        Entry("urlretrieve", TRUE), Entry("extractall", TRUE)>>
====
